---- MODULE Spec2Model ----
(***************************************************************************)
(* A model of pyEnsemblRest's client, src/ensemblrest/ensemblrest.py:      *)
(* EnsemblRest.__init__ (session arguments and header defaults),           *)
(* EnsemblGenomeRest.__init__ and EnsemblRest.call_api_func (mandatory     *)
(* parameters, URL resolution, rate limiting, the request, the request     *)
(* counter and the classification of the response).                        *)
(*                                                                         *)
(* Text that the code scans, substitutes or parses (URL templates, URLs,   *)
(* keyword names, response bodies) is a sequence of one-character strings. *)
(* Text that the code only compares or stores (HTTP methods, content       *)
(* types, header names and values) is a TLA+ string.                       *)
(* Time is counted in ticks, TicksPerSec of them to the second.            *)
(***************************************************************************)
EXTENDS Integers, Sequences, FiniteSets, TLC

(***************************************************************************)
(* Python values                                                           *)
(***************************************************************************)
PyNone == [t |-> "None"]
PyStr(chars) == [t |-> "str", v |-> chars]
PyInt(n) == [t |-> "int", v |-> n]
PyDict(f) == [t |-> "dict", v |-> f]
PyList(s) == [t |-> "list", v |-> s]
PyBool(b) == [t |-> "bool", v |-> b]

EmptyDict == [k \in {} |-> PyNone]

DigitChars == <<"0", "1", "2", "3", "4", "5", "6", "7", "8", "9">>
DigitSet == {DigitChars[i] : i \in 1..10}
DigitValue(c) == (CHOOSE i \in 1..10 : DigitChars[i] = c) - 1

RECURSIVE Decimal(_)
Decimal(n) ==
  IF n < 10 THEN <<DigitChars[n + 1]>>
  ELSE Decimal(n \div 10) \o <<DigitChars[(n % 10) + 1]>>

\* "%s" % value
Str(val) ==
  CASE val.t = "str" -> val.v
    [] val.t = "int" -> Decimal(val.v)
    [] val.t = "None" -> <<"N", "o", "n", "e">>

(***************************************************************************)
(* The regular expression \{\{(?P<m>[a-zA-Z_]+)\}\}                        *)
(***************************************************************************)
LowerChars ==
  {"a", "b", "c", "d", "e", "f", "g", "h", "i", "j", "k", "l", "m",
   "n", "o", "p", "q", "r", "s", "t", "u", "v", "w", "x", "y", "z"}
UpperChars ==
  {"A", "B", "C", "D", "E", "F", "G", "H", "I", "J", "K", "L", "M",
   "N", "O", "P", "Q", "R", "S", "T", "U", "V", "W", "X", "Y", "Z"}
IsNameChar(c) == c \in LowerChars \cup UpperChars \cup {"_"}

\* the length of the longest run of [a-zA-Z_] starting at s[i]
RECURSIVE NameRun(_, _)
NameRun(s, i) ==
  IF i <= Len(s) /\ IsNameChar(s[i]) THEN 1 + NameRun(s, i + 1) ELSE 0

\* the length of the match of the pattern that starts at s[i], 0 when none
\* does: the greedy run cannot give a character back, since "}" is no name
\* character
MatchLen(s, i) ==
  IF i + 1 <= Len(s) /\ s[i] = "{" /\ s[i + 1] = "{"
  THEN LET k == NameRun(s, i + 2)
       IN  IF k >= 1 /\ i + 3 + k <= Len(s)
              /\ s[i + 2 + k] = "}" /\ s[i + 3 + k] = "}"
           THEN k + 4 ELSE 0
  ELSE 0

\* re.findall(pattern, s): group m of every match, leftmost first, not
\* overlapping
RECURSIVE FindallFrom(_, _)
FindallFrom(s, i) ==
  IF i > Len(s) THEN <<>>
  ELSE LET n == MatchLen(s, i)
       IN  IF n > 0
           THEN <<SubSeq(s, i + 2, i + n - 3)>> \o FindallFrom(s, i + n)
           ELSE FindallFrom(s, i + 1)

findall(s) == FindallFrom(s, 1)

has_key(kwargs, param) == param \in DOMAIN kwargs
get(kwargs, param) == IF param \in DOMAIN kwargs THEN kwargs[param] ELSE PyNone

\* re.sub(pattern, lambda m: "%s" % kwargs.get(m.group(1)), s)
RECURSIVE SubFrom(_, _, _)
SubFrom(s, i, kwargs) ==
  IF i > Len(s) THEN <<>>
  ELSE LET n == MatchLen(s, i)
       IN  IF n > 0
           THEN Str(get(kwargs, SubSeq(s, i + 2, i + n - 3)))
                  \o SubFrom(s, i + n, kwargs)
           ELSE <<s[i]>> \o SubFrom(s, i + 1, kwargs)

sub(s, kwargs) == SubFrom(s, 1, kwargs)

(***************************************************************************)
(* json.loads and json.dumps                                               *)
(***************************************************************************)
ParseFail == [ok |-> FALSE, val |-> PyNone, next |-> 0]
Parsed(val, next) == [ok |-> TRUE, val |-> val, next |-> next]

RECURSIVE SkipWs(_, _)
SkipWs(s, i) == IF i <= Len(s) /\ s[i] = " " THEN SkipWs(s, i + 1) ELSE i

\* the index of the first double quote at or after s[i], 0 when there is none
RECURSIVE QuoteAt(_, _)
QuoteAt(s, i) ==
  IF i > Len(s) THEN 0
  ELSE IF s[i] = "\"" THEN i
  ELSE QuoteAt(s, i + 1)

RECURSIVE DigitRun(_, _)
DigitRun(s, i) ==
  IF i <= Len(s) /\ s[i] \in DigitSet THEN 1 + DigitRun(s, i + 1) ELSE 0

RECURSIVE Number(_, _, _)
Number(s, i, n) ==
  IF n = 0 THEN 0
  ELSE 10 * Number(s, i, n - 1) + DigitValue(s[i + n - 1])

HasPrefix(s, i, word) ==
  /\ i + Len(word) - 1 <= Len(s)
  /\ SubSeq(s, i, i + Len(word) - 1) = word

\* a string literal starting at s[i] (no escapes occur in the bodies)
ParseString(s, i) ==
  IF i <= Len(s) /\ s[i] = "\""
  THEN LET j == QuoteAt(s, i + 1)
       IN  IF j = 0 THEN ParseFail
           ELSE Parsed(PyStr(SubSeq(s, i + 1, j - 1)), j + 1)
  ELSE ParseFail

RECURSIVE ParseValue(_, _), ParseMembers(_, _, _), ParseElements(_, _, _)

\* s[i] starts a member "key": value; acc holds the members read so far
ParseMembers(s, i, acc) ==
  LET key == ParseString(s, SkipWs(s, i))
  IN  IF ~key.ok THEN ParseFail
      ELSE LET c == SkipWs(s, key.next)
           IN  IF c > Len(s) \/ s[c] # ":" THEN ParseFail
               ELSE LET val == ParseValue(s, c + 1)
                    IN  IF ~val.ok THEN ParseFail
                        ELSE LET e == SkipWs(s, val.next)
                                 new == [k \in DOMAIN acc \cup {key.val.v} |->
                                           IF k = key.val.v THEN val.val
                                           ELSE acc[k]]
                             IN  IF e > Len(s) THEN ParseFail
                                 ELSE IF s[e] = "," THEN ParseMembers(s, e + 1, new)
                                 ELSE IF s[e] = "}" THEN Parsed(PyDict(new), e + 1)
                                 ELSE ParseFail

\* s[i] starts an element of an array; acc holds the elements read so far
ParseElements(s, i, acc) ==
  LET val == ParseValue(s, i)
  IN  IF ~val.ok THEN ParseFail
      ELSE LET e == SkipWs(s, val.next)
               new == Append(acc, val.val)
           IN  IF e > Len(s) THEN ParseFail
               ELSE IF s[e] = "," THEN ParseElements(s, e + 1, new)
               ELSE IF s[e] = "]" THEN Parsed(PyList(new), e + 1)
               ELSE ParseFail

ParseValue(s, i0) ==
  LET i == SkipWs(s, i0)
  IN  IF i > Len(s) THEN ParseFail
      ELSE IF s[i] = "\"" THEN ParseString(s, i)
      ELSE IF s[i] \in DigitSet
        THEN LET n == DigitRun(s, i) IN Parsed(PyInt(Number(s, i, n)), i + n)
      ELSE IF s[i] = "{"
        THEN LET j == SkipWs(s, i + 1)
             IN  IF j <= Len(s) /\ s[j] = "}" THEN Parsed(PyDict(EmptyDict), j + 1)
                 ELSE ParseMembers(s, i + 1, EmptyDict)
      ELSE IF s[i] = "["
        THEN LET j == SkipWs(s, i + 1)
             IN  IF j <= Len(s) /\ s[j] = "]" THEN Parsed(PyList(<<>>), j + 1)
                 ELSE ParseElements(s, i + 1, <<>>)
      ELSE IF HasPrefix(s, i, <<"n", "u", "l", "l">>) THEN Parsed(PyNone, i + 4)
      ELSE IF HasPrefix(s, i, <<"t", "r", "u", "e">>) THEN Parsed(PyBool(TRUE), i + 4)
      ELSE IF HasPrefix(s, i, <<"f", "a", "l", "s", "e">>)
        THEN Parsed(PyBool(FALSE), i + 5)
      ELSE ParseFail

\* json.loads(text): [ok |-> FALSE] stands for the ValueError it raises
loads(text) ==
  LET r == ParseValue(text, 1)
  IN  IF r.ok /\ SkipWs(text, r.next) > Len(text)
      THEN [ok |-> TRUE, val |-> r.val]
      ELSE [ok |-> FALSE, val |-> PyNone]

DumpsValue(val) ==
  CASE val.t = "str" -> <<"\"">> \o val.v \o <<"\"">>
    [] val.t = "int" -> Decimal(val.v)
    [] val.t = "None" -> <<"n", "u", "l", "l">>

\* the members of d whose keys are among the first n of order, ", "-joined
RECURSIVE DumpsMembers(_, _, _)
DumpsMembers(d, order, n) ==
  IF n = 0 THEN <<>>
  ELSE LET before == DumpsMembers(d, order, n - 1)
           k == order[n]
       IN  IF k \notin DOMAIN d THEN before
           ELSE (IF before = <<>> THEN <<>> ELSE before \o <<",", " ">>)
                  \o <<"\"">> \o k \o <<"\"", ":", " ">> \o DumpsValue(d[k])

\* json.dumps(d) of a dict of strings and numbers; order is the order in
\* which the dict yields its keys
dumps(d, order) == <<"{">> \o DumpsMembers(d, order, Len(order)) \o <<"}">>

(***************************************************************************)
(* Dicts                                                                   *)
(***************************************************************************)
\* d.update(e)
update(d, e) ==
  [k \in DOMAIN d \cup DOMAIN e |-> IF k \in DOMAIN e THEN e[k] ELSE d[k]]

\* del d[k], for k a key of d
del(d, k) == [j \in DOMAIN d \ {k} |-> d[j]]

(***************************************************************************)
(* Bounds of the model                                                     *)
(***************************************************************************)
\* ticks to the second
TicksPerSec == 2
\* the clock at construction, in seconds since the epoch
EpochSecs == 2
\* how long after construction the clock runs, in seconds
HorizonSecs == 1
\* the same, for calls spaced more than a second apart
SpacedHorizonSecs == 25
\* how long beyond a second such a caller waits at most, in ticks
MaxSlack == 1

(***************************************************************************)
(* ensembl_config: the configuration the client imports                    *)
(***************************************************************************)
ensembl_default_url == <<"/", "/", "e", ".", "o", "r", "g">>
ensembl_genomes_url == <<"/", "/", "g", ".", "o", "r", "g">>
ensembl_user_agent == [k \in {"User-Agent"} |-> "pyEnsemblRest"]
ensembl_content_type == [k \in {"Content-Type"} |-> "application/json"]

Entry(method, url, content_type) ==
  [method |-> method, url |-> url, content_type |-> content_type]

ApiNames == {"getLookupById", "getSequenceById", "getMapBySpecies",
             "getPing", "getPairById", "putArchiveById"}

ensembl_api_table ==
  [name \in ApiNames |->
     CASE name = "getLookupById" ->
            Entry("GET", <<"/", "l", "/", "{", "{", "i", "d", "}", "}">>,
                  "application/json")
       [] name = "getSequenceById" ->
            Entry("GET", <<"/", "s", "/", "{", "{", "i", "d", "}", "}">>,
                  "text/plain")
       [] name = "getMapBySpecies" ->
            Entry("POST", <<"/", "m", "/", "{", "{", "s", "p", "}", "}",
                            "/", "{", "{", "i", "d", "}", "}">>,
                  "application/json")
       [] name = "getPing" ->
            Entry("GET", <<"/", "p", "i", "n", "g">>, "application/json")
       [] name = "getPairById" ->
            Entry("GET", <<"/", "p", "/", "{", "{", "i", "d", "}", "}",
                           "/", "{", "{", "i", "d", "}", "}">>,
                  "application/json")
       [] name = "putArchiveById" ->
            Entry("PUT", <<"/", "a", "/", "{", "{", "i", "d", "}", "}">>,
                  "application/json")]

StatusCodes == {200, 304, 305, 400, 404, 429, 503}

\* status code -> (short name, message)
ensembl_http_status_codes ==
  [code \in StatusCodes |->
     CASE code = 200 -> <<PyStr(<<"O", "K">>), PyStr(<<"o", "k">>)>>
       [] code = 304 -> <<PyStr(<<"N", "M">>), PyStr(<<"s", "a", "m", "e">>)>>
       [] code = 305 -> <<PyStr(<<"U", "P">>), PyStr(<<"p", "r", "o", "x", "y">>)>>
       [] code = 400 -> <<PyStr(<<"B", "R">>), PyStr(<<"b", "a", "d">>)>>
       [] code = 404 -> <<PyStr(<<"N", "F">>), PyStr(<<"l", "o", "s", "t">>)>>
       [] code = 429 -> <<PyStr(<<"T", "M">>), PyStr(<<"s", "l", "o", "w">>)>>
       [] code = 503 -> <<PyStr(<<"S", "U">>), PyStr(<<"d", "o", "w", "n">>)>>]

\* the headers a new requests.Session carries
RequestsDefaultHeaders ==
  [k \in {"User-Agent", "Accept"} |->
     IF k = "User-Agent" THEN "python-requests" ELSE "*/*"]

(***************************************************************************)
(* What callers pass and servers answer                                    *)
(***************************************************************************)
ParamNames == {<<"i", "d">>, <<"s", "p">>, <<"q">>}
\* the order in which a dict of keyword arguments yields its keys
KeyOrder == <<<<"i", "d">>, <<"q">>, <<"s", "p">>>>
ParamValues == {PyStr(<<"A">>), PyInt(7)}

Dicts(keys, values) == UNION {[d -> values] : d \in SUBSET keys}

KwargSets == Dicts(ParamNames, ParamValues)

Bodies ==
  { <<"{", "\"", "a", "\"", ":", "1", "}">>,
    <<"{", "\"", "e", "r", "r", "o", "r", "\"", ":", "\"", "b", "a", "d",
      " ", "i", "d", "\"", "}">>,
    <<"[", "1", "]">>,
    <<"o", "o", "p", "s">>,
    <<>> }

Response(status_code, text) == [status_code |-> status_code, text |-> text]
Responses == {Response(c, b) : c \in StatusCodes, b \in Bodies}

HeaderNames == {"User-Agent", "Content-Type", "Accept", "X-Tag"}
HeaderValues == {"mine", "other"}
HeaderDicts == Dicts(HeaderNames, HeaderValues)
BaseUrlArgs == {<<>>, <<"/", "/", "m", ".", "o", "r", "g">>}

(***************************************************************************)
(* State                                                                   *)
(***************************************************************************)
VARIABLES
  now,              \* time.time(), in ticks
  headers_obj,      \* the dict the caller passes as headers=
  constructed,      \* whether the client exists
  base_url,         \* session.base_url
  session_headers,  \* session.headers
  req_count,
  last_req,
  last_response,
  given,            \* the headers= argument of the latest construction, as passed
  created,          \* the clock at the latest construction
  call,             \* the latest call: its arguments and the clock at its start
  request,          \* the request the latest call sent
  raised,           \* the exception the latest call raised
  returned,         \* the value the latest call returned
  logged,           \* what the latest call logged as critical
  slept,            \* for how long the latest call slept
  nsent,            \* requests sent since construction, counted to reqs_per_sec + 2
  answered          \* requests answered since req_count was last set to zero

vars == <<now, headers_obj, constructed, base_url, session_headers, req_count,
          last_req, last_response, given, created, call, request, raised,
          returned, logged, slept, nsent, answered>>

client == <<constructed, base_url, session_headers, headers_obj, given, created>>
outcome == <<call, request, raised, returned, logged, slept>>

NoValue == [t |-> "none"]
NoHeaders == [k \in {} |-> ""]

reqs_per_sec == 15

(***************************************************************************)
(* EnsemblRest.__init__ and EnsemblGenomeRest.__init__                     *)
(***************************************************************************)
\* the caller's headers dict after the defaults are filled in
MergeHeaders(headers) ==
  IF "User-Agent" \notin DOMAIN headers THEN update(headers, ensembl_user_agent)
  ELSE IF "Content-Type" \notin DOMAIN headers
    THEN update(headers, ensembl_content_type)
  ELSE headers

\* session_args['headers']; headers is NoValue when the caller passes none
SessionArgsHeaders(headers) ==
  IF headers = NoValue THEN ensembl_user_agent ELSE MergeHeaders(headers.v)

\* session_args['base_url']; base_arg is <<>> when the caller passes none
SessionArgsBaseUrl(cls, base_arg) ==
  IF base_arg # <<>> THEN base_arg
  ELSE IF cls = "EnsemblGenomeRest" THEN ensembl_genomes_url
  ELSE ensembl_default_url

Construct(cls, base_arg, with_headers) ==
  LET headers == IF with_headers THEN [t |-> "dict", v |-> headers_obj]
                 ELSE NoValue
  IN  /\ given' = headers
      /\ created' = now
      /\ req_count' = 0
      /\ last_req' = 0
      /\ base_url' = SessionArgsBaseUrl(cls, base_arg)
      /\ headers_obj' = IF with_headers THEN MergeHeaders(headers_obj)
                        ELSE headers_obj
      /\ session_headers' =
           update(RequestsDefaultHeaders, SessionArgsHeaders(headers))
      /\ constructed' = TRUE
      /\ last_response' = NoValue
      /\ nsent' = 0
      /\ answered' = 0
      /\ UNCHANGED <<now, outcome>>

(***************************************************************************)
(* EnsemblRest.call_api_func                                               *)
(***************************************************************************)
Fmt(fmt, args) == [t |-> "fmt", fmt |-> fmt, args |-> args]
Raise(type, message) == [t |-> "raise", type |-> type, message |-> message]
RaiseApi(type, message, error_code) ==
  [t |-> "raise", type |-> type, message |-> message, error_code |-> error_code]

\* the index in mandatory_params of the parameter the loop of line 112 raises
\* for, 0 when kwargs has them all
RECURSIVE MissingFrom(_, _, _)
MissingFrom(mandatory_params, kwargs, i) ==
  IF i > Len(mandatory_params) THEN 0
  ELSE IF ~has_key(kwargs, mandatory_params[i]) THEN i
  ELSE MissingFrom(mandatory_params, kwargs, i + 1)

\* a plausible bug: the loop remembers the missing parameter and goes on
RECURSIVE LastMissingFrom(_, _, _)
LastMissingFrom(mandatory_params, kwargs, i) ==
  IF i > Len(mandatory_params) THEN 0
  ELSE LET later == LastMissingFrom(mandatory_params, kwargs, i + 1)
       IN  IF later > 0 THEN later
           ELSE IF ~has_key(kwargs, mandatory_params[i]) THEN i
           ELSE 0

LastMissing(mandatory_params, kwargs) ==
  LastMissingFrom(mandatory_params, kwargs, 1)

FirstMissing(mandatory_params, kwargs) ==
  MissingFrom(mandatory_params, kwargs, 1)

\* the loop of line 123: err is the index of the parameter whose del raises
\* KeyError, 0 when none does
RECURSIVE DelFrom(_, _, _)
DelFrom(kwargs, mandatory_params, i) ==
  IF i > Len(mandatory_params) THEN [err |-> 0, kwargs |-> kwargs]
  ELSE IF ~has_key(kwargs, mandatory_params[i]) THEN [err |-> i, kwargs |-> kwargs]
  ELSE DelFrom(del(kwargs, mandatory_params[i]), mandatory_params, i + 1)

DelParams(kwargs, mandatory_params) == DelFrom(kwargs, mandatory_params, 1)

\* a plausible bug: nothing is checked before the request
NoEarlyFailure(func, kwargs) == NoValue

\* lines 110-124: the exception raised before the rate limiter, if any
EarlyFailure(func, kwargs) ==
  LET mandatory_params == findall(func.url)
      m == FirstMissing(mandatory_params, kwargs)
      d == DelParams(kwargs, mandatory_params)
  IN  IF m > 0
      THEN Raise("Exception",
                 Fmt("mandatory param '%s' not specified",
                     <<PyStr(mandatory_params[m])>>))
      ELSE IF d.err > 0
        THEN Raise("KeyError", PyStr(mandatory_params[d.err]))
      ELSE NoValue

\* line 114
CriticalLog(func, kwargs) ==
  LET mandatory_params == findall(func.url)
      m == FirstMissing(mandatory_params, kwargs)
  IN  IF m > 0
      THEN Fmt("'%s' param not specified. Mandatory params are %s",
               <<PyStr(mandatory_params[m]), PyList(mandatory_params)>>)
      ELSE NoValue

\* line 117
ResolvedUrl(func, kwargs) == sub(base_url \o func.url, kwargs)

\* a plausible bug: the operands of the subtraction are swapped
DeltaSwapped(t, last) == last - t

\* line 128
Delta(t, last) == t - last

\* a plausible bug: > for >=
OverLimit(count) == count > reqs_per_sec

\* line 127
ReachedLimit(count) == count >= reqs_per_sec

\* lines 127-132, entered at clock t: the counter, the time stamp and the
\* clock after them
RateLimit(count, last, t) ==
  IF ReachedLimit(count)
  THEN LET delta == Delta(t, last)
           wake == IF delta < TicksPerSec THEN t + (TicksPerSec - delta) ELSE t
       IN  [req_count |-> 0, last_req |-> wake, now |-> wake]
  ELSE [req_count |-> count, last_req |-> last, now |-> t]

Implemented(func) == func.method \in {"GET", "POST"}

\* lines 135-142
Request(func, url, kwargs) ==
  IF func.method = "GET"
  THEN [t |-> "GET", url |-> url, content_type |-> func.content_type,
        params |-> kwargs]
  ELSE [t |-> "POST", url |-> url, content_type |-> func.content_type,
        data |-> dumps(kwargs, KeyOrder)]

\* a plausible bug: the counter is left as it was
NotIncremented(count) == count

\* line 148
Incremented(count) == count + 1

\* a plausible bug: >= for >
IsErrorFrom304(status_code) == status_code >= 304

\* line 154
IsError(status_code) == status_code > 304

ValueError == Raise("ValueError", Fmt("No JSON object could be decoded", <<>>))
TypeError == Raise("TypeError", Fmt("indices must be integers", <<>>))

\* lines 158-168: the message, or the exception that escapes while it is built
Message(resp) ==
  LET fallback == ensembl_http_status_codes[resp.status_code][2]
  IN  IF resp.status_code = 400
      THEN LET body == loads(resp.text)
           IN  IF ~body.ok THEN ValueError
               ELSE IF body.val.t # "dict" THEN TypeError
               ELSE IF <<"e", "r", "r", "o", "r">> \in DOMAIN body.val.v
                 THEN body.val.v[<<"e", "r", "r", "o", "r">>]
               ELSE fallback
      ELSE fallback

\* lines 154-184: what the call raises and what it returns
Classify(func, resp) ==
  IF IsError(resp.status_code)
  THEN LET message == Message(resp)
           ExceptionType == IF resp.status_code = 429
                            THEN "EnsemblRestRateLimitError"
                            ELSE "EnsemblRestError"
       IN  [raised |-> IF message.t = "raise" THEN message
                       ELSE RaiseApi(ExceptionType, message, resp.status_code),
            returned |-> NoValue]
  ELSE IF func.content_type = "application/json"
    THEN LET body == loads(resp.text)
         IN  IF body.ok THEN [raised |-> NoValue, returned |-> body.val]
             ELSE [raised |-> ValueError, returned |-> NoValue]
  ELSE [raised |-> NoValue, returned |-> PyStr(resp.text)]

ConnectionError == [t |-> "ConnectionError"]

CountSent(n) == IF n < reqs_per_sec + 2 THEN n + 1 ELSE n

\* one call of the callable registered for api_call; resp is what the server
\* answers, ConnectionError when the transport fails
call_api_func(api_call, kwargs, resp) ==
  LET func == ensembl_api_table[api_call]
      mandatory_params == findall(func.url)
      early == EarlyFailure(func, kwargs)
      url == ResolvedUrl(func, kwargs)
      rest == DelParams(kwargs, mandatory_params).kwargs
      rl == RateLimit(req_count, last_req, now)
      result == Classify(func, resp)
      since == IF ReachedLimit(req_count) THEN 0 ELSE answered
  IN  /\ constructed
      /\ call' = [api_call |-> api_call, kwargs |-> kwargs, start |-> now,
                  count |-> req_count]
      /\ logged' = CriticalLog(func, kwargs)
      /\ IF early # NoValue
         THEN /\ raised' = early
              /\ request' = NoValue
              /\ returned' = NoValue
              /\ slept' = 0
              /\ UNCHANGED <<now, req_count, last_req, last_response, nsent,
                             answered>>
         ELSE /\ slept' = rl.now - now
              /\ last_req' = rl.last_req
              /\ IF ~Implemented(func)
                 THEN /\ raised' =
                           Raise("NotImplementedError",
                                 Fmt("Method '%s' not yet implemented",
                                     <<PyStr(func.method)>>))
                      /\ request' = NoValue
                      /\ returned' = NoValue
                      /\ now' = rl.now
                      /\ req_count' = rl.req_count
                      /\ answered' = since
                      /\ UNCHANGED <<last_response, nsent>>
                 ELSE /\ request' = Request(func, url, rest)
                      /\ now' = rl.now
                      /\ nsent' = CountSent(nsent)
                      /\ IF resp = ConnectionError
                         THEN /\ raised' = Raise("ConnectionError", Fmt("", <<>>))
                              /\ returned' = NoValue
                              /\ req_count' = rl.req_count
                              /\ answered' = since
                              /\ UNCHANGED last_response
                         ELSE /\ req_count' = Incremented(rl.req_count)
                              /\ answered' = since + 1
                              /\ last_response' = resp
                              /\ raised' = result.raised
                              /\ returned' = result.returned
      /\ UNCHANGED client

(***************************************************************************)
(* Specifications                                                          *)
(***************************************************************************)
Start == EpochSecs * TicksPerSec
End == Start + HorizonSecs * TicksPerSec
SpacedEnd == Start + SpacedHorizonSecs * TicksPerSec

NoCall == [t |-> "none"]

\* the state after cls() is constructed with no arguments
Fresh(cls) ==
  /\ now = Start
  /\ headers_obj = NoHeaders
  /\ constructed = TRUE
  /\ base_url = SessionArgsBaseUrl(cls, <<>>)
  /\ session_headers = update(RequestsDefaultHeaders, SessionArgsHeaders(NoValue))
  /\ req_count = 0
  /\ last_req = 0
  /\ last_response = NoValue
  /\ given = NoValue
  /\ created = Start
  /\ call = NoCall
  /\ request = NoValue
  /\ raised = NoValue
  /\ returned = NoValue
  /\ logged = NoValue
  /\ slept = 0
  /\ nsent = 0
  /\ answered = 0

Tick(end) ==
  /\ now < end
  /\ now' = now + 1
  /\ UNCHANGED <<client, outcome, req_count, last_req, last_response, nsent,
                 answered>>

\* Sequences of calls on one client: calls that lack the parameter, that
\* repeat it in the template, that name a method the client does not
\* implement, and calls that send a request, answered by a success, by two
\* errors or not at all.  The time a request takes is a Tick after the call.
CallOf(api_call, kwargs, resp) ==
  [api_call |-> api_call, kwargs |-> kwargs, resp |-> resp]

IdArg == [k \in {<<"i", "d">>} |-> PyStr(<<"A">>)]
NoArgs == [k \in {} |-> PyNone]
OkResponse == Response(200, <<"{", "\"", "a", "\"", ":", "1", "}">>)

SeqCalls ==
  { CallOf("getLookupById", NoArgs, OkResponse),
    CallOf("getPairById", IdArg, OkResponse),
    CallOf("putArchiveById", IdArg, OkResponse),
    CallOf("getLookupById", IdArg, OkResponse),
    CallOf("getLookupById", IdArg, Response(400, <<"o", "o", "p", "s">>)),
    CallOf("getLookupById", IdArg, Response(429, <<>>)),
    CallOf("getLookupById", IdArg, ConnectionError) }

\* a call that omits the second of two tokens
BurstCalls == SeqCalls \cup {CallOf("getMapBySpecies", IdArg, OkResponse)}

Init == Fresh("EnsemblRest")

Clock == Tick(End)

Call ==
  /\ now <= End
  /\ \E c \in BurstCalls : call_api_func(c.api_call, c.kwargs, c.resp)

Next == Clock \/ Call

Spec == Init /\ [][Next]_vars

\* Sequences of calls each of which starts more than a second after the
\* one before it started.
Spaced == IF call = NoCall THEN TRUE ELSE now - call.start > TicksPerSec

\* the caller waits no longer than MaxSlack ticks beyond the second
SpacedClock ==
  /\ now - (IF call = NoCall THEN created ELSE call.start) <= TicksPerSec + MaxSlack
  /\ Tick(SpacedEnd)

SpacedCall ==
  /\ now <= SpacedEnd
  /\ Spaced
  /\ \E c \in SeqCalls : call_api_func(c.api_call, c.kwargs, c.resp)

NextSpaced == SpacedClock \/ SpacedCall

SpecSpaced == Init /\ [][NextSpaced]_vars

\* One call on a new client, over every entry, every set of keyword
\* arguments and every response.
InitDispatch == \E cls \in {"EnsemblRest", "EnsemblGenomeRest"} : Fresh(cls)

Dispatch ==
  /\ call = NoCall
  /\ \E api_call \in ApiNames, kwargs \in KwargSets,
        resp \in Responses \cup {ConnectionError} :
       call_api_func(api_call, kwargs, resp)

NextDispatch == Dispatch

SpecDispatch == InitDispatch /\ [][NextDispatch]_vars

\* Constructions of clients by a caller who holds one headers dict.
InitNew ==
  /\ now = Start
  /\ headers_obj \in HeaderDicts
  /\ constructed = FALSE
  /\ base_url = <<>>
  /\ session_headers = NoHeaders
  /\ req_count = 0
  /\ last_req = 0
  /\ last_response = NoValue
  /\ given = NoValue
  /\ created = 0
  /\ call = NoCall
  /\ request = NoValue
  /\ raised = NoValue
  /\ returned = NoValue
  /\ logged = NoValue
  /\ slept = 0
  /\ nsent = 0
  /\ answered = 0

NewClient ==
  \E cls \in {"EnsemblRest", "EnsemblGenomeRest"}, base_arg \in BaseUrlArgs,
     with_headers \in BOOLEAN :
    Construct(cls, base_arg, with_headers)

NextNew == NewClient

SpecNew == InitNew /\ [][NextNew]_vars

(***************************************************************************)
(* Properties                                                              *)
(***************************************************************************)
Called == call # NoCall
Sent == request # NoValue
Raised(type) == IF raised = NoValue THEN FALSE ELSE raised.type = type
Answered == Sent /\ ~Raised("ConnectionError")

\* the placeholder tokens of the template of call c, as the claims define
\* them, and the positions of those that c's keyword arguments omit
TokensOf(c) == findall(ensembl_api_table[c.api_call].url)
OmittedIn(c) ==
  {i \in 1..Len(TokensOf(c)) : TokensOf(c)[i] \notin DOMAIN c.kwargs}
Omits(c) == IF c = NoCall THEN FALSE ELSE OmittedIn(c) # {}
Supplies(c) == IF c = NoCall THEN FALSE ELSE OmittedIn(c) = {}

\* C1: a call that omits a placeholder token of its template fails before
\* the network: it raises, sends no request, does not sleep, and leaves
\* req_count, last_req and last_response as they were.
C1_MissingParamFailsBeforeNetwork ==
  [][ (call' # call /\ Omits(call')) =>
        /\ raised' # NoValue
        /\ request' = NoValue
        /\ slept' = 0
        /\ now' = now
        /\ req_count' = req_count
        /\ last_req' = last_req
        /\ last_response' = last_response ]_vars

\* C1 witness: a call omitted its token when the counter had reached the
\* limit within the second, so that a call that reached the limiter would
\* have slept.
C1_Witness ==
  /\ Omits(call)
  /\ Raised("Exception")
  /\ ~Sent
  /\ req_count >= reqs_per_sec
  /\ call.start - last_req < TicksPerSec

\* C4, as claimed: on a new client, the (reqs_per_sec + 1)-th call that
\* sends a request, started less than a second after construction with the
\* reqs_per_sec before it counted, sleeps for the rest of the second that
\* began at construction, and req_count is zero when it sends.
C4_Original ==
  (/\ Answered
   /\ nsent = reqs_per_sec + 1
   /\ call.count = reqs_per_sec
   /\ call.start - created < TicksPerSec)
  => /\ slept = TicksPerSec - (call.start - created)
     /\ req_count = 1

\* C9: a call that sends a request and gets a response leaves req_count one
\* above what it was when the request was sent (zero if the call reset it),
\* whether the call then returns or raises; a call that sends nothing does
\* not add to it.
CountAtSend(c) == IF c.count >= reqs_per_sec THEN 0 ELSE c.count

C9_CountedOncePerResponse ==
  Called =>
    /\ Answered => req_count = CountAtSend(call) + 1
    /\ (~Sent /\ (Raised("Exception") \/ Raised("KeyError")))
         => req_count = call.count
    /\ (~Sent /\ Raised("NotImplementedError")) => req_count = CountAtSend(call)

\* C9 witness: a call that reset the counter got an error response, raised
\* the API error and was counted.
C9_Witness ==
  /\ Called
  /\ Answered
  /\ Raised("EnsemblRestRateLimitError")
  /\ call.count = reqs_per_sec
  /\ req_count = 1

\* C10: req_count stays within 0..reqs_per_sec; it goes down only to zero,
\* only from reqs_per_sec, and only in a call that got as far as the rate
\* limiter; and no more than reqs_per_sec requests are answered between two
\* resets.
C10_CountWithinLimit ==
  /\ [](req_count \in 0..reqs_per_sec /\ answered <= reqs_per_sec)
  /\ [][ req_count' < req_count =>
           /\ req_count = reqs_per_sec
           /\ req_count' <= 1
           /\ call' # call
           /\ ~Omits(call')
           /\ (Sent' \/ Raised("NotImplementedError")') ]_vars

\* C10 witness: the counter stands at the limit after a reset.
C10_Witness ==
  /\ req_count = reqs_per_sec
  /\ nsent > reqs_per_sec

FirstOmitted(c) ==
  TokensOf(c)[CHOOSE i \in OmittedIn(c) : \A j \in OmittedIn(c) : i <= j]

MessageArgs == {raised.message.args[i] : i \in 1..Len(raised.message.args)}

\* C2, as claimed: the exception raised for omitted placeholder tokens names
\* every omitted token and carries the list of the mandatory parameters.
C2_Original ==
  Omits(call) =>
    /\ raised # NoValue
    /\ \A i \in OmittedIn(call) : PyStr(TokensOf(call)[i]) \in MessageArgs
    /\ PyList(TokensOf(call)) \in MessageArgs

\* C2, amended: the exception raised names the first omitted token of the
\* template and nothing else; that token and the list of the mandatory
\* parameters go to the critical log record.
C2_FirstMissingNamed ==
  Omits(call) =>
    /\ raised = Raise("Exception",
                      Fmt("mandatory param '%s' not specified",
                          <<PyStr(FirstOmitted(call))>>))
    /\ logged = Fmt("'%s' param not specified. Mandatory params are %s",
                    <<PyStr(FirstOmitted(call)), PyList(TokensOf(call))>>)

\* C2 witness: a call omitted both tokens of a template and the exception
\* names the first.
C2_Witness ==
  /\ Omits(call)
  /\ Cardinality(OmittedIn(call)) = 2
  /\ raised.message.args = <<PyStr(<<"s", "p">>)>>

\* C3, as claimed: a call that supplies every placeholder token of a GET or
\* POST entry sends a request to base_url followed by the template with
\* each token replaced by the string form of its argument, and sends the
\* other keyword arguments, and only them, as the query or the JSON body.
OtherArgs(c) ==
  [k \in DOMAIN c.kwargs \ {TokensOf(c)[i] : i \in 1..Len(TokensOf(c))} |->
     c.kwargs[k]]

C3_Original ==
  (Supplies(call) /\ Implemented(ensembl_api_table[call.api_call])) =>
    /\ Sent
    /\ request.url = base_url \o sub(ensembl_api_table[call.api_call].url,
                                     call.kwargs)
    /\ request.t = "GET" => request.params = OtherArgs(call)
    /\ request.t = "POST" =>
         /\ loads(request.data).ok
         /\ loads(request.data).val = PyDict(OtherArgs(call))

\* a response came back with an error status
ErrorStatus ==
  IF Answered THEN last_response.status_code > 304 ELSE FALSE
\* a response came back with another status
SuccessStatus ==
  IF Answered THEN last_response.status_code <= 304 ELSE FALSE

ErrorKey == <<"e", "r", "r", "o", "r">>
HasErrorField(text) ==
  IF loads(text).ok /\ loads(text).val.t = "dict"
  THEN ErrorKey \in DOMAIN loads(text).val.v
  ELSE FALSE

\* C6, as claimed: a response with status above 304 makes the call raise
\* the API error with that status code, the rate-limit subtype exactly for
\* 429, with the body's error field as message for a 400 that has one and
\* the message of the status-code table otherwise.
C6_Original ==
  ErrorStatus =>
    /\ raised # NoValue
    /\ raised.type = IF last_response.status_code = 429
                     THEN "EnsemblRestRateLimitError"
                     ELSE "EnsemblRestError"
    /\ raised.error_code = last_response.status_code
    /\ raised.message =
         IF last_response.status_code = 400 /\ HasErrorField(last_response.text)
         THEN loads(last_response.text).val.v[ErrorKey]
         ELSE ensembl_http_status_codes[last_response.status_code][2]

\* what the decoder makes of each body, written out; NoValue where the body
\* is no JSON text
Decoded(text) ==
  CASE text = <<"{", "\"", "a", "\"", ":", "1", "}">> ->
         PyDict([k \in {<<"a">>} |-> PyInt(1)])
    [] text = <<"{", "\"", "e", "r", "r", "o", "r", "\"", ":", "\"", "b", "a",
                "d", " ", "i", "d", "\"", "}">> ->
         PyDict([k \in {ErrorKey} |-> PyStr(<<"b", "a", "d", " ", "i", "d">>)])
    [] text = <<"[", "1", "]">> -> PyList(<<PyInt(1)>>)
    [] OTHER -> NoValue

JsonEndpoint ==
  ensembl_api_table[call.api_call].content_type = "application/json"

\* C7, as claimed: a response with status 304 or below makes the call
\* return, the decoded body for an application/json entry and the text of
\* the body for any other.
C7_Original ==
  SuccessStatus =>
    /\ raised = NoValue
    /\ returned.t = (IF JsonEndpoint THEN Decoded(last_response.text).t
                     ELSE "str")
    /\ returned = IF JsonEndpoint THEN Decoded(last_response.text)
                  ELSE PyStr(last_response.text)

\* C7, amended: a response with status 304 or below makes the call return
\* the text of the body for an entry that is not application/json; for an
\* application/json entry it makes the call return the decoded body when the
\* body is JSON text, and raise the decoder's ValueError when it is not.
C7_SuccessReturnsBody ==
  SuccessStatus =>
    IF ~JsonEndpoint
    THEN /\ raised = NoValue
         /\ returned = PyStr(last_response.text)
    ELSE IF Decoded(last_response.text) # NoValue
    THEN /\ raised = NoValue
         /\ returned.t = Decoded(last_response.text).t
         /\ returned = Decoded(last_response.text)
    ELSE /\ Raised("ValueError")
         /\ returned = NoValue

\* C7 witness: an application/json entry answered with status 304 and a
\* JSON body returned the decoded body.
C7_Witness ==
  /\ SuccessStatus
  /\ JsonEndpoint
  /\ last_response.status_code = 304
  /\ returned = PyDict([k \in {<<"a">>} |-> PyInt(1)])

\* C8, as claimed: after construction with a headers dict, the session
\* carries every header of the dict with the caller's value, and User-Agent
\* and Content-Type with their default values where the dict has none.
Defaults == update(ensembl_user_agent, ensembl_content_type)

C8_Original ==
  (constructed /\ given # NoValue) =>
    /\ \A k \in DOMAIN given.v :
         k \in DOMAIN session_headers /\ session_headers[k] = given.v[k]
    /\ \A k \in DOMAIN Defaults \ DOMAIN given.v :
         k \in DOMAIN session_headers /\ session_headers[k] = Defaults[k]
====
